---------------------------- MODULE Spec2Model ----------------------------
(***************************************************************************)
(* Model of updateSSH.py (class SSHKeyImporter): the 1Password SSH key     *)
(* importer.  One run is startImport: getKeyList (listing, then one fetch  *)
(* and one handleMissingFields per item), exportKeys, writeHostFile.       *)
(*                                                                         *)
(* Text is modelled as a sequence of one-character strings, so that the    *)
(* regular expression of _getShortTitle and the split of _splitLabels are  *)
(* computed character by character.  Python's None is the one-element      *)
(* sequence <<"None">>, which is no text.  A file's content is the        *)
(* sequence of its lines.                                                  *)
(***************************************************************************)
EXTENDS Integers, Sequences, FiniteSets, TLC

VARIABLES
    pc,             \* position in startImport: "start", "fetch", "export",
                    \* "write", "done", "exit1" (sys.exit(1)), "crash"
                    \* (uncaught exception), "idle" (no run)
    exitStatus,     \* process exit status, -1 while running
    useraction,     \* self.useraction
    urlaction,      \* self.urlaction
    labelsaction,   \* self.labelsaction
    identityAgent,  \* self.identityAgent
    vault,          \* what the op CLI answers: the listing and each item's fetch
    keys,           \* self.keys
    idx,            \* loop position of "for key in self.keys" in getKeyList
    dirExists,      \* os.path.exists(EXPORT_PUBKEY_DIR)
    files,          \* the files under EXPORT_PUBKEY_DIR: name -> content
    writes,         \* history: every os.mkdir and open(..., 'w'), in order
    calls,          \* history: the op commands run and whether they exited 0
    answers,        \* history: what input() returned, in order
    run,            \* number of the current run of startImport
    firstRun,       \* history: config and answers of the previous run
    t,              \* a title given to _getShortTitle on its own
    applied,        \* how often _getShortTitle was applied to t
    short,          \* _getShortTitle of t
    again           \* _getShortTitle of short

vars == <<pc, exitStatus, useraction, urlaction, labelsaction, identityAgent,
          vault, keys, idx, dirExists, files, writes, calls, answers, run,
          firstRun, t, applied, short, again>>

runVars == <<pc, exitStatus, useraction, urlaction, labelsaction,
             identityAgent, vault, keys, idx, dirExists, files, writes,
             calls, answers, run, firstRun>>

titleVars == <<t, applied, short, again>>

-----------------------------------------------------------------------------
(* Bounds *)

MaxItems == 2

MaxLen == 4

-----------------------------------------------------------------------------
(* Text *)

None == <<"None">>

LowerLetters ==
    {"a", "b", "c", "d", "e", "f", "g", "h", "i", "j", "k", "l", "m",
     "n", "o", "p", "q", "r", "s", "t", "u", "v", "w", "x", "y", "z"}

Digits == {"0", "1", "2", "3", "4", "5", "6", "7", "8", "9"}

UpperToLower ==
    [c \in {"A", "B", "C", "D", "E", "F", "G", "H", "I", "J", "K", "L", "M",
            "N", "O", "P", "Q", "R", "S", "T", "U", "V", "W", "X", "Y", "Z"} |->
        CASE c = "A" -> "a" [] c = "B" -> "b" [] c = "C" -> "c" [] c = "D" -> "d"
          [] c = "E" -> "e" [] c = "F" -> "f" [] c = "G" -> "g" [] c = "H" -> "h"
          [] c = "I" -> "i" [] c = "J" -> "j" [] c = "K" -> "k" [] c = "L" -> "l"
          [] c = "M" -> "m" [] c = "N" -> "n" [] c = "O" -> "o" [] c = "P" -> "p"
          [] c = "Q" -> "q" [] c = "R" -> "r" [] c = "S" -> "s" [] c = "T" -> "t"
          [] c = "U" -> "u" [] c = "V" -> "v" [] c = "W" -> "w" [] c = "X" -> "x"
          [] c = "Y" -> "y" [] c = "Z" -> "z"]

\* str.lower()
Lower(s) ==
    [i \in 1..Len(s) |->
        IF s[i] \in DOMAIN UpperToLower THEN UpperToLower[s[i]] ELSE s[i]]

Drop(s, n) == SubSeq(s, n + 1, Len(s))

StartsWith(s, p) == Len(s) >= Len(p) /\ SubSeq(s, 1, Len(p)) = p

\* the class [^a-z0-9]
NotAlnum(c) == c \notin (LowerLetters \cup Digits)

\* length of the longest prefix of s matched by [^a-z0-9]+
RECURSIVE NotAlnumRun(_)
NotAlnumRun(s) ==
    IF s = <<>> \/ ~NotAlnum(s[1]) THEN 0 ELSE 1 + NotAlnumRun(Tail(s))

\* length of the match of (ssh(\-key)?)|[^a-z0-9]+ at the start of s, 0 if none
MatchLen(s) ==
    IF StartsWith(s, <<"s", "s", "h", "-", "k", "e", "y">>) THEN 7
    ELSE IF StartsWith(s, <<"s", "s", "h">>) THEN 3
    ELSE NotAlnumRun(s)

\* re.sub(pattern, '', s): one scan from the left, every match removed
RECURSIVE ReSub(_)
ReSub(s) ==
    IF s = <<>> THEN <<>>
    ELSE IF MatchLen(s) > 0 THEN ReSub(Drop(s, MatchLen(s)))
    ELSE <<s[1]>> \o ReSub(Tail(s))

\* _getShortTitle without the .lower()
ShortTitleNoLower(key) == ReSub(key.title)

\* _getShortTitle(key)
_getShortTitle(key) == ReSub(Lower(key.title))

\* labels.replace(' ', ',')
SpacesToCommas(s) == [i \in 1..Len(s) |-> IF s[i] = " " THEN "," ELSE s[i]]

\* str.split(','): the pieces between the commas, empty pieces included
RECURSIVE SplitComma(_, _)
SplitComma(s, cur) ==
    IF s = <<>> THEN <<cur>>
    ELSE IF s[1] = "," THEN <<cur>> \o SplitComma(Tail(s), <<>>)
    ELSE SplitComma(Tail(s), Append(cur, s[1]))

\* _splitLabels(labels)
_splitLabels(labels) ==
    SelectSeq(SplitComma(SpacesToCommas(labels), <<>>), LAMBDA l : l /= <<>>)

\* " ".join(labels)
RECURSIVE Join(_)
Join(ls) ==
    IF ls = <<>> THEN <<>>
    ELSE IF Len(ls) = 1 THEN ls[1]
    ELSE ls[1] \o <<" ">> \o Join(Tail(ls))

-----------------------------------------------------------------------------
(* _getShortTitle on its own *)

TitleAlphabet == {"s", "h", "-", "k", "e", "y", "S", "7", " "}

ExampleTitle ==
    <<"M", "y", "-", "S", "S", "H", "-", "K", "e", "y", ":", " ",
      "p", "r", "o", "d", " ", "d", "b">>

Titles == UNION {[1..n -> TitleAlphabet] : n \in 0..MaxLen} \cup {ExampleTitle}

IdleRun ==
    /\ pc = "idle"
    /\ exitStatus = -1
    /\ useraction = <<>>
    /\ urlaction = <<>>
    /\ labelsaction = <<>>
    /\ identityAgent = None
    /\ vault = <<>>
    /\ keys = <<>>
    /\ idx = 0
    /\ dirExists = FALSE
    /\ files = <<>>
    /\ writes = <<>>
    /\ calls = <<>>
    /\ answers = <<>>
    /\ run = 0
    /\ firstRun = <<>>

InitTitle ==
    /\ IdleRun
    /\ t \in Titles
    /\ applied = 0
    /\ short = <<>>
    /\ again = <<>>

Sanitize ==
    /\ applied = 0
    /\ short' = _getShortTitle([title |-> t])
    /\ applied' = 1
    /\ UNCHANGED <<t, again>>
    /\ UNCHANGED runVars

SanitizeAgain ==
    /\ applied = 1
    /\ again' = _getShortTitle([title |-> short])
    /\ applied' = 2
    /\ UNCHANGED <<t, short>>
    /\ UNCHANGED runVars

NextTitle == Sanitize \/ SanitizeAgain

SpecTitle == InitTitle /\ [][NextTitle]_vars

-----------------------------------------------------------------------------
(* The importer: configuration and the outside world *)

Prompt == <<"p", "r", "o", "m", "p", "t">>

LeaveEmpty == <<"l", "e", "a", "v", "e", "-", "e", "m", "p", "t", "y">>

UseDefault == <<"u", "s", "e", "-", "d", "e", "f", "a", "u", "l", "t">>

LinuxAgent ==
    <<"~", "/", ".", "1", "p", "a", "s", "s", "w", "o", "r", "d", "/",
      "a", "g", "e", "n", "t", ".", "s", "o", "c", "k">>

DarwinAgent ==
    <<"\"", "~", "/", "L", "i", "b", "r", "a", "r", "y", "/", "G", "r", "o",
      "u", "p", " ", "C", "o", "n", "t", "a", "i", "n", "e", "r", "s", "/",
      "2", "B", "U", "A", "8", "C", "4", "S", "2", "C", ".", "c", "o", "m",
      ".", "1", "p", "a", "s", "s", "w", "o", "r", "d", "/", "t", "/", "a",
      "g", "e", "n", "t", ".", "s", "o", "c", "k", "\"">>

\* __init__: self.identityAgent from sys.platform
IdentityAgentOf(platform) ==
    IF platform = "linux" THEN LinuxAgent
    ELSE IF platform = "darwin" THEN DarwinAgent
    ELSE None

EXPORT_PUBKEY_DIR ==
    <<"~", "/", ".", "s", "s", "h", "/", "1", "p", "a", "s", "s", "w", "o",
      "r", "d">>

\* os.path.join(self.EXPORT_PUBKEY_DIR, name)
PathJoin(dir, name) == dir \o <<"/">> \o name

ConfigName == PathJoin(EXPORT_PUBKEY_DIR, <<"c", "o", "n", "f", "i", "g">>)

\* A dict is a function on the keys it holds.
Get(d, f) == IF f \in DOMAIN d THEN d[f] ELSE None

Put(d, f, v) == (f :> v) @@ d

\* "not x" for a text, an empty text or None
Falsy(v) == v = None \/ v = <<>>

\* The value a field of the vault item may have: Absent is no entry at all,
\* None an entry without a value, Own the item's own public key.
Absent == <<"Absent">>

Own == <<"Own">>

PubKeyText(id) == <<"K">> \o <<<<"1", "2", "3", "4", "5">>[id]>>

FieldsOf(id, c) ==
    LET v == [l \in {"url", "user", "labels", "public key"} |->
                 IF l = "url" THEN c.url
                 ELSE IF l = "user" THEN c.user
                 ELSE IF l = "labels" THEN c.labels
                 ELSE IF c.pk = Own THEN PubKeyText(id) ELSE c.pk]
    IN  [l \in {l \in DOMAIN v : v[l] /= Absent} |-> v[l]]

\* The vault: item i of the listing has id i; ok is whether "op item get"
\* exits zero for it, fields what it then returns (labels lower-cased)
Vaults(choices, n) ==
    UNION {{[i \in 1..k |->
                [id |-> i, title |-> c[i].title, ok |-> c[i].ok,
                 fields |-> IF c[i].ok THEN FieldsOf(i, c[i]) ELSE <<>>]]
            : c \in [1..k -> choices]} : k \in 0..n}

ItemChoices(titles, urls, users, labelss, pks) ==
    [title : titles, ok : {TRUE}, url : urls, user : users, labels : labelss,
     pk : pks]
    \cup [title : titles, ok : {FALSE}, url : {Absent}, user : {Absent},
          labels : {Absent}, pk : {Absent}]

\* Files found in the export directory before a run
StaleFiles ==
    (ConfigName :> <<<<"H", "o", "s", "t", " ", "o", "l", "d">>,
                     <<" ", " ", "U", "s", "e", "r", " ", "o", "l", "d">>, <<>>>>)
    @@ (PathJoin(EXPORT_PUBKEY_DIR, <<"d", "b", ".", "p", "u", "b">>)
        :> <<<<"s", "t", "a", "l", "e">>>>)

\* open(name, 'a') in place of open(name, 'w')
AppendFile(fs, name, lines) ==
    (name :> (IF name \in DOMAIN fs THEN fs[name] ELSE <<>>) \o lines) @@ fs

\* with open(name, 'w') as f: the file is created or truncated, then the
\* lines are written
WriteFile(fs, name, lines) == (name :> lines) @@ fs

-----------------------------------------------------------------------------
(* handleMissingFields *)

\* lines 72-80
ResolveUrl(key, urlIn) ==
    IF Falsy(Get(key, "url"))
    THEN LET url == IF urlaction = Prompt THEN urlIn ELSE <<>>
             k == Put(key, "url", url)
         IN  IF url /= <<>> THEN Put(k, "updated_fields", <<"url">>) ELSE k
    ELSE key

\* lines 81-91
ResolveUser(key, userIn) ==
    IF Falsy(Get(key, "user"))
    THEN LET user == IF useraction = Prompt THEN userIn
                     ELSE IF useraction = LeaveEmpty THEN <<>>
                     ELSE useraction
             k == Put(key, "user", user)
         IN  IF user /= <<>>
             THEN Put(k, "updated_fields",
                      (IF "updated_fields" \in DOMAIN k
                       THEN k["updated_fields"] ELSE <<>>) \o <<"user">>)
             ELSE k
    ELSE key

\* lines 92-103 with the two defaults the other way round
ResolveLabelsUrlFirst(key, labelsIn) ==
    IF Falsy(Get(key, "labels"))
    THEN LET defaults == <<key["url"], _getShortTitle(key)>>
             labels == IF labelsaction = Prompt
                       THEN IF _splitLabels(labelsIn) /= <<>>
                            THEN _splitLabels(labelsIn) ELSE defaults
                       ELSE defaults
             k == Put(key, "labels", labels)
         IN  IF labels /= <<>>
             THEN Put(k, "updated_fields",
                      (IF "updated_fields" \in DOMAIN k
                       THEN k["updated_fields"] ELSE <<>>) \o <<"labels">>)
             ELSE k
    ELSE Put(key, "labels", _splitLabels(key["labels"]))

\* lines 92-103
ResolveLabels(key, labelsIn) ==
    IF Falsy(Get(key, "labels"))
    THEN LET defaults == <<_getShortTitle(key), key["url"]>>
             labels == IF labelsaction = Prompt
                       THEN IF _splitLabels(labelsIn) /= <<>>
                            THEN _splitLabels(labelsIn) ELSE defaults
                       ELSE defaults
             k == Put(key, "labels", labels)
         IN  IF labels /= <<>>
             THEN Put(k, "updated_fields",
                      (IF "updated_fields" \in DOMAIN k
                       THEN k["updated_fields"] ELSE <<>>) \o <<"labels">>)
             ELSE k
    ELSE Put(key, "labels", _splitLabels(key["labels"]))

\* what input() is called for, in order, for this key
Asked(key, urlIn, userIn, labelsIn) ==
    (IF Falsy(Get(key, "url")) /\ urlaction = Prompt
     THEN <<[item |-> key["id"], field |-> "url", text |-> urlIn]>> ELSE <<>>)
    \o (IF Falsy(Get(key, "user")) /\ useraction = Prompt
        THEN <<[item |-> key["id"], field |-> "user", text |-> userIn]>>
        ELSE <<>>)
    \o (IF Falsy(Get(key, "labels")) /\ labelsaction = Prompt
        THEN <<[item |-> key["id"], field |-> "labels", text |-> labelsIn]>>
        ELSE <<>>)

handleMissingFields(key, urlIn, userIn, labelsIn) ==
    ResolveLabels(ResolveUser(ResolveUrl(key, urlIn), userIn), labelsIn)

-----------------------------------------------------------------------------
(* getKeyList *)

UrlAnswers == {<<>>, <<"p", ".", "i", "o">>}

UserAnswers == {<<>>, <<"b", "o", "b">>}

LabelAnswers == {<<>>, <<",", " ">>, <<"p", " ", "q">>}

\* what input() may return for a field: nothing is typed where it is not called
Typed(key, f, action, texts) ==
    IF Falsy(Get(key, f)) /\ action = Prompt THEN texts ELSE {<<>>}

\* lines 42-48 without the sys.exit(1): the run goes on with no keys
GetKeyListNoExit ==
    /\ pc = "start"
    /\ \E listed \in BOOLEAN :
          /\ calls' = Append(calls, [cmd |-> "list", id |-> 0, ok |-> listed])
          /\ IF listed
             THEN /\ keys' = [i \in 1..Len(vault) |->
                                 [id |-> vault[i].id, title |-> vault[i].title]]
                  /\ idx' = 1
                  /\ pc' = IF Len(vault) = 0 THEN "export" ELSE "fetch"
                  /\ exitStatus' = exitStatus
             ELSE /\ pc' = "export"
                  /\ UNCHANGED <<keys, idx, exitStatus>>
    /\ UNCHANGED <<useraction, urlaction, labelsaction, identityAgent, vault,
                   dirExists, files, writes, answers, run, firstRun>>
    /\ UNCHANGED titleVars

\* lines 42-48 and the head of the loop: the listing call
GetKeyList ==
    /\ pc = "start"
    /\ \E listed \in BOOLEAN :
          /\ calls' = Append(calls, [cmd |-> "list", id |-> 0, ok |-> listed])
          /\ IF listed
             THEN /\ keys' = [i \in 1..Len(vault) |->
                                 [id |-> vault[i].id, title |-> vault[i].title]]
                  /\ idx' = 1
                  /\ pc' = IF Len(vault) = 0 THEN "export" ELSE "fetch"
                  /\ exitStatus' = exitStatus
             ELSE /\ pc' = "exit1"
                  /\ exitStatus' = 1
                  /\ UNCHANGED <<keys, idx>>
    /\ UNCHANGED <<useraction, urlaction, labelsaction, identityAgent, vault,
                   dirExists, files, writes, answers, run, firstRun>>
    /\ UNCHANGED titleVars

\* lines 49-54: one turn of the loop, _getPublicKey and handleMissingFields
FetchItem ==
    /\ pc = "fetch"
    /\ LET key == keys[idx]
           item == vault[key["id"]]
       IN  /\ calls' = Append(calls, [cmd |-> "get", id |-> key["id"],
                                       ok |-> item.ok])
           /\ IF item.ok
              THEN LET got == item.fields @@ key
                   IN  \E urlIn \in Typed(got, "url", urlaction, UrlAnswers),
                          userIn \in Typed(got, "user", useraction, UserAnswers),
                          labelsIn \in Typed(got, "labels", labelsaction,
                                             LabelAnswers) :
                          /\ keys' = [keys EXCEPT ![idx] =
                                 handleMissingFields(got, urlIn, userIn, labelsIn)]
                          /\ answers' = answers
                                 \o Asked(got, urlIn, userIn, labelsIn)
              ELSE UNCHANGED <<keys, answers>>
    /\ idx' = idx + 1
    /\ pc' = IF idx = Len(keys) THEN "export" ELSE "fetch"
    /\ UNCHANGED <<exitStatus, useraction, urlaction, labelsaction,
                   identityAgent, vault, dirExists, files, writes, run,
                   firstRun>>
    /\ UNCHANGED titleVars

-----------------------------------------------------------------------------
(* exportKeys *)

\* lines 64-67 for one key: st is [keys, files, writes, crashed]; f.write(None)
\* raises TypeError and leaves the file empty
ExportOne(st, i) ==
    LET key == st.keys[i]
        fileName == PathJoin(EXPORT_PUBKEY_DIR, _getShortTitle(key))
                        \o <<".", "p", "u", "b">>
        text == key["public key"]
    IN  [keys |-> [st.keys EXCEPT ![i] = Put(key, "fileName", fileName)],
         files |-> WriteFile(st.files, fileName,
                             IF text = None THEN <<>> ELSE <<text>>),
         writes |-> Append(st.writes, [by |-> i, name |-> fileName]),
         crashed |-> text = None]

\* lines 62-67: the loop over self.keys, from key i on
RECURSIVE ExportLoop(_, _)
ExportLoop(st, i) ==
    IF i > Len(st.keys) \/ st.crashed THEN st
    ELSE IF "public key" \in DOMAIN st.keys[i]
         THEN ExportLoop(ExportOne(st, i), i + 1)
         ELSE ExportLoop(st, i + 1)

ExportKeys ==
    /\ pc = "export"
    /\ dirExists' = TRUE
    /\ LET st == ExportLoop([keys |-> keys,
                             files |-> IF dirExists THEN files ELSE <<>>,
                             writes |-> IF dirExists THEN writes
                                        ELSE Append(writes,
                                                 [by |-> -1,
                                                  name |-> EXPORT_PUBKEY_DIR]),
                             crashed |-> FALSE], 1)
       IN  /\ keys' = st.keys
           /\ files' = st.files
           /\ writes' = st.writes
           /\ pc' = IF st.crashed THEN "crash" ELSE "write"
           /\ exitStatus' = IF st.crashed THEN 1 ELSE exitStatus
    /\ UNCHANGED <<useraction, urlaction, labelsaction, identityAgent, vault,
                   idx, calls, answers, run, firstRun>>
    /\ UNCHANGED titleVars

-----------------------------------------------------------------------------
(* writeHostFile *)

\* lines 113-122 without the test of line 116
HostBlockAlwaysIdentity(key) ==
    <<<<"H", "o", "s", "t", " ">> \o Join(key["labels"])>>
    \o (IF key["url"] /= <<>>
        THEN <<<<" ", " ", "H", "o", "s", "t", "N", "a", "m", "e", " ">>
                 \o key["url"]>>
        ELSE <<>>)
    \o (IF TRUE
        THEN <<<<" ", " ", "I", "d", "e", "n", "t", "i", "t", "y", "F", "i",
                 "l", "e", " ">> \o PathJoin(EXPORT_PUBKEY_DIR, _getShortTitle(key))
                 \o <<".", "p", "u", "b">>,
               <<" ", " ", "I", "d", "e", "n", "t", "i", "t", "i", "e", "s",
                 "O", "n", "l", "y", " ", "y", "e", "s">>>>
        ELSE <<>>)
    \o (IF key["user"] /= <<>>
        THEN <<<<" ", " ", "U", "s", "e", "r", " ">> \o key["user"]>>
        ELSE <<>>)
    \o (IF identityAgent /= None
        THEN <<<<" ", " ", "I", "d", "e", "n", "t", "i", "t", "y", "A", "g",
                 "e", "n", "t", " ">> \o identityAgent>>
        ELSE <<>>)

\* lines 113-122: the block of one key
HostBlock(key) ==
    <<<<"H", "o", "s", "t", " ">> \o Join(key["labels"])>>
    \o (IF key["url"] /= <<>>
        THEN <<<<" ", " ", "H", "o", "s", "t", "N", "a", "m", "e", " ">>
                 \o key["url"]>>
        ELSE <<>>)
    \o (IF "public key" \in DOMAIN key
        THEN <<<<" ", " ", "I", "d", "e", "n", "t", "i", "t", "y", "F", "i",
                 "l", "e", " ">> \o key["fileName"],
               <<" ", " ", "I", "d", "e", "n", "t", "i", "t", "i", "e", "s",
                 "O", "n", "l", "y", " ", "y", "e", "s">>>>
        ELSE <<>>)
    \o (IF key["user"] /= <<>>
        THEN <<<<" ", " ", "U", "s", "e", "r", " ">> \o key["user"]>>
        ELSE <<>>)
    \o (IF identityAgent /= None
        THEN <<<<" ", " ", "I", "d", "e", "n", "t", "i", "t", "y", "A", "g",
                 "e", "n", "t", " ">> \o identityAgent>>
        ELSE <<>>)

\* lines 108-111
Header ==
    <<
      <<"#", " ", "T", "h", "i", "s", " ", "f", "i", "l", "e", " ", "w",
        "a", "s", " ", "c", "r", "e", "a", "t", "e", "d", " ", "b", "y",
        " ", "t", "h", "e", " ", "1", "P", "a", "s", "s", "w", "o", "r",
        "d", " ", "S", "S", "H", "-", "K", "e", "y", " ", "i", "m", "p",
        "o", "r", "t", "e", "r", " ", "(", "u", "p", "d", "a", "t", "e",
        "S", "S", "H", ".", "p", "y", ")">>,
      <<"#", " ", "M", "a", "n", "u", "a", "l", " ", "c", "h", "a", "n",
        "g", "e", "s", " ", "t", "o", " ", "t", "h", "i", "s", " ", "f",
        "i", "l", "e", " ", "w", "i", "l", "l", " ", "b", "e", " ", "o",
        "v", "e", "r", "w", "r", "i", "t", "t", "e", "n", " ", "b", "y",
        " ", "t", "h", "e", " ", "s", "c", "r", "i", "p", "t">>
    >>

\* lines 127-131 without the test of line 128
WrittenAll(host) == host \o <<<<>>>>

\* lines 127-131: what is written for one entry of hosts
Written(host) == IF Len(host) = 1 THEN <<>> ELSE host \o <<<<>>>>

RECURSIVE WriteAll(_)
WriteAll(hosts) ==
    IF hosts = <<>> THEN <<>> ELSE Written(hosts[1]) \o WriteAll(Tail(hosts))

\* key["labels"], key["url"], key["user"] raise KeyError
Raises(key) == {"labels", "url", "user"} \ DOMAIN key /= {}

WriteHostFile ==
    /\ pc = "write"
    /\ IF \E i \in 1..Len(keys) : Raises(keys[i])
       THEN /\ pc' = "crash"
            /\ exitStatus' = 1
            /\ UNCHANGED <<files, writes>>
       ELSE LET hosts == <<Header>> \o [i \in 1..Len(keys) |-> HostBlock(keys[i])]
            IN  /\ files' = WriteFile(files, ConfigName, WriteAll(hosts))
                /\ writes' = Append(writes, [by |-> 0, name |-> ConfigName])
                /\ pc' = "done"
                /\ exitStatus' = 0
    /\ UNCHANGED <<useraction, urlaction, labelsaction, identityAgent, vault,
                   keys, idx, dirExists, calls, answers, run, firstRun>>
    /\ UNCHANGED titleVars

-----------------------------------------------------------------------------
(* One run of startImport *)

IdleTitle ==
    /\ t = <<>>
    /\ applied = -1
    /\ short = <<>>
    /\ again = <<>>

InitRun(choices, n, userActions, urlActions, labelsActions, platforms) ==
    /\ pc = "start"
    /\ exitStatus = -1
    /\ useraction \in userActions
    /\ urlaction \in urlActions
    /\ labelsaction \in labelsActions
    /\ identityAgent \in {IdentityAgentOf(p) : p \in platforms}
    /\ vault \in Vaults(choices, n)
    /\ keys = <<>>
    /\ idx = 0
    /\ dirExists \in BOOLEAN
    /\ files = IF dirExists THEN StaleFiles ELSE <<>>
    /\ writes = <<>>
    /\ calls = <<>>
    /\ answers = <<>>
    /\ run = 1
    /\ firstRun = <<>>
    /\ IdleTitle

Db == <<"D", "b">>

TitleSet == {Db, Lower(Db), <<"S", "S", "H">>}

Host == <<"h", ".", "i", "o">>

Root == <<"r", "o", "o", "t">>

\* Every shape of block: with and without URL, user, public key and agent
\* socket, for items whose titles may sanitize to the same short-title; no
\* prompt is configured.
Init ==
    InitRun(ItemChoices(TitleSet, {Absent, Host}, {Absent, Root}, {Absent},
                        {Absent, Own}),
            MaxItems, {LeaveEmpty}, {LeaveEmpty}, {UseDefault},
            {"linux", "win32"})

Next == GetKeyList \/ FetchItem \/ ExportKeys \/ WriteHostFile

Spec == Init /\ [][Next]_vars

-----------------------------------------------------------------------------
(* Field resolution: every policy, every shape of the labels field *)

MaxResolved == 1

LabelTexts == {Absent, None, <<>>, <<",", " ">>, <<"x", ",", " ", "y">>}

InitResolve ==
    InitRun(ItemChoices({Db}, {Absent, None, Host}, {Absent, Root}, LabelTexts,
                        {Own}),
            MaxResolved, {Prompt, LeaveEmpty, Root}, {Prompt, LeaveEmpty},
            {Prompt, UseDefault}, {"linux"})

SpecResolve == InitResolve /\ [][Next]_vars

-----------------------------------------------------------------------------
(* The script run again on the same vault, lines 190-191 *)

Rerun ==
    /\ pc = "done"
    /\ run = 1
    /\ run' = 2
    /\ firstRun' = [config |-> files[ConfigName], answers |-> answers]
    /\ pc' = "start"
    /\ exitStatus' = -1
    /\ keys' = <<>>
    /\ idx' = 0
    /\ writes' = <<>>
    /\ calls' = <<>>
    /\ answers' = <<>>
    /\ files' \in {files, StaleFiles}
    /\ UNCHANGED <<useraction, urlaction, labelsaction, identityAgent, vault,
                   dirExists>>
    /\ UNCHANGED titleVars

InitRerun ==
    InitRun(ItemChoices({Db}, {Absent, Host}, {Absent}, {Absent},
                        {Absent, None, Own}),
            MaxItems, {LeaveEmpty}, {Prompt, LeaveEmpty}, {UseDefault},
            {"linux"})

NextRerun == Next \/ Rerun

SpecRerun == InitRerun /\ [][NextRerun]_vars

-----------------------------------------------------------------------------
(* Claims about _getShortTitle, under SpecTitle *)

\* C3: sanitizing a short-title again gives the same short-title.
C3_Idempotent == applied = 2 => again = short

\* C7 as stated: the example title "My-SSH-Key: prod db" sanitizes to
\* "myprodb".
C7_ExampleAsStated ==
    (applied >= 1 /\ t = ExampleTitle)
        => short = <<"m", "y", "p", "r", "o", "d", "b">>

Contains(s, p) == \E k \in 0..(Len(s) - Len(p)) : SubSeq(s, k + 1, k + Len(p)) = p

\* C7 (amended): the example title sanitizes to "myproddb"; a short-title holds
\* only characters of [a-z0-9]; where the lower-cased title holds no "ssh" the
\* short-title is its [a-z0-9] characters in order; and the removal is one
\* pass, so "s-sh" sanitizes to "ssh", which is not removed in turn.
C7_ShortTitle ==
    applied >= 1 =>
        /\ t = ExampleTitle => short = <<"m", "y", "p", "r", "o", "d", "d", "b">>
        /\ \A k \in 1..Len(short) : short[k] \in LowerLetters \cup Digits
        /\ ~Contains(Lower(t), <<"s", "s", "h">>)
              => short = SelectSeq(Lower(t), LAMBDA c : c \in LowerLetters \cup Digits)
        /\ t = <<"s", "-", "s", "h">> => short = <<"s", "s", "h">>

C7_Witness == applied >= 1 /\ t = ExampleTitle

-----------------------------------------------------------------------------
(* Reading the run's history and the written config *)

Resolved(i) == i \in 1..Len(keys) /\ "labels" \in DOMAIN keys[i]

WroteBy(i) == \E k \in 1..Len(writes) : writes[k].by = i

ListingFailed == \E k \in 1..Len(calls) : calls[k].cmd = "list" /\ ~calls[k].ok

FetchFailed(i) ==
    \E k \in 1..Len(calls) : calls[k].cmd = "get" /\ calls[k].id = i /\ ~calls[k].ok

\* the blocks of a config file: each ends with an empty line
RECURSIVE Blocks(_, _)
Blocks(lines, cur) ==
    IF lines = <<>> THEN (IF cur = <<>> THEN <<>> ELSE <<cur>>)
    ELSE IF lines[1] = <<>> THEN <<cur>> \o Blocks(Tail(lines), <<>>)
    ELSE Blocks(Tail(lines), Append(cur, lines[1]))

ConfigBlocks == Blocks(files[ConfigName], <<>>)

HostKw == <<"H", "o", "s", "t", " ">>

HostNameKw == <<" ", " ", "H", "o", "s", "t", "N", "a", "m", "e", " ">>

IdentityFileKw ==
    <<" ", " ", "I", "d", "e", "n", "t", "i", "t", "y", "F", "i", "l", "e", " ">>

IdentitiesOnlyKw ==
    <<" ", " ", "I", "d", "e", "n", "t", "i", "t", "i", "e", "s", "O", "n", "l", "y">>

UserKw == <<" ", " ", "U", "s", "e", "r", " ">>

IdentityAgentKw ==
    <<" ", " ", "I", "d", "e", "n", "t", "i", "t", "y", "A", "g", "e", "n", "t", " ">>

\* a resolved record that has nothing to say beyond its Host line
Bare(i) ==
    /\ keys[i]["url"] = <<>>
    /\ keys[i]["user"] = <<>>
    /\ ~WroteBy(i)
    /\ identityAgent = None

\* the block of record i in the written config, when it is not bare
BlockOf(i) == ConfigBlocks[1 + Cardinality({j \in 1..i : ~Bare(j)})]

-----------------------------------------------------------------------------
(* Claims about one run, under Spec *)

\* C1: when the listing succeeded and the fetch of an item failed, the run
\* still ends with the config written; every item fetched with a public key
\* has its key file, and the failed item has neither a file nor a block.
C1_FetchFailureSkipsItem ==
    (pc \in {"done", "crash"} /\ \E i \in 1..Len(vault) : FetchFailed(i))
        => /\ pc = "done"
           /\ WroteBy(0)
           /\ \A i \in 1..Len(keys) :
                 /\ (~FetchFailed(i) /\ "public key" \in DOMAIN keys[i]) => WroteBy(i)
                 /\ FetchFailed(i) => ~WroteBy(i)
           /\ Len(ConfigBlocks) <= 1 + Cardinality({i \in 1..Len(keys) : ~FetchFailed(i)})

\* C4: a fetched record without a 'public key' entry has no .pub file written
\* for it, its block in the written config has no IdentityFile and no
\* IdentitiesOnly line, and with a URL its block is there with the HostName.
C4_NoKeyNoIdentityFile ==
    \A i \in 1..Len(keys) :
        (Resolved(i) /\ "public key" \notin DOMAIN vault[i].fields) =>
            /\ ~WroteBy(i)
            /\ (pc = "done" /\ ~Bare(i)) =>
                  /\ BlockOf(i)[1] = HostKw \o Join(keys[i]["labels"])
                  /\ \A k \in 1..Len(BlockOf(i)) :
                        /\ ~StartsWith(BlockOf(i)[k], IdentityFileKw)
                        /\ ~StartsWith(BlockOf(i)[k], IdentitiesOnlyKw)
            /\ (pc = "done" /\ keys[i]["url"] /= <<>>) =>
                  /\ ~Bare(i)
                  /\ BlockOf(i)[2] = HostNameKw \o keys[i]["url"]
            /\ pc = "done" =>
                  Cardinality({k \in 1..Len(files[ConfigName]) :
                                  StartsWith(files[ConfigName][k], IdentityFileKw)})
                      = Cardinality({j \in 1..Len(keys) :
                                        "public key" \in DOMAIN vault[j].fields})

C4_Witness ==
    /\ pc = "done"
    /\ \E i, j \in 1..Len(keys) :
          /\ "public key" \notin DOMAIN vault[i].fields
          /\ keys[i]["url"] /= <<>>
          /\ "public key" \in DOMAIN vault[j].fields

\* the lines the claim gives record i, in the claim's order
Line(on, kw, text) == IF on THEN <<kw \o text>> ELSE <<>>

FileWrittenBy(i) ==
    LET k == CHOOSE k \in 1..Len(writes) : writes[k].by = i IN writes[k].name

ClaimedBlock(i) ==
    Line(TRUE, HostKw, Join(keys[i]["labels"]))
    \o Line(keys[i]["url"] /= <<>>, HostNameKw, keys[i]["url"])
    \o (IF WroteBy(i)
        THEN Line(TRUE, IdentityFileKw, FileWrittenBy(i))
             \o Line(TRUE, IdentitiesOnlyKw, <<" ", "y", "e", "s">>)
        ELSE <<>>)
    \o Line(keys[i]["user"] /= <<>>, UserKw, keys[i]["user"])
    \o Line(identityAgent /= None, IdentityAgentKw, identityAgent)

RECURSIVE ClaimedBlocks(_)
ClaimedBlocks(i) ==
    IF i > Len(keys) THEN <<>>
    ELSE (IF Len(ClaimedBlock(i)) > 1 THEN <<ClaimedBlock(i)>> ELSE <<>>)
         \o ClaimedBlocks(i + 1)

\* C9: the written config is the two-line header comment and then, in listing
\* order, one block per record: Host, HostName iff a URL, IdentityFile and
\* IdentitiesOnly yes iff a key was exported, User iff a user, IdentityAgent iff
\* an agent socket is configured; a block of the Host line alone is left out,
\* so every Host line is followed by an option line.
C9_BlocksInFixedOrder ==
    pc = "done" =>
        LET config == files[ConfigName] IN
        /\ Len(ConfigBlocks) >= 1
        /\ Len(ConfigBlocks[1]) = 2
        /\ \A k \in 1..2 : ConfigBlocks[1][k][1] = "#"
        /\ Tail(ConfigBlocks) = ClaimedBlocks(1)
        /\ \A k \in 1..Len(config) :
              StartsWith(config[k], HostKw) =>
                  /\ k < Len(config)
                  /\ StartsWith(config[k + 1], <<" ", " ">>)

C9_Witness ==
    /\ pc = "done"
    /\ \E i, j \in 1..Len(keys) :
          /\ i < j
          /\ Len(ClaimedBlock(i)) = 1
          /\ Len(ClaimedBlock(j)) = 5

\* C10: after a complete run the file named by a record's IdentityFile line
\* holds that record's own public key.
C10_IdentityFileHoldsOwnKey ==
    pc = "done" =>
        \A i \in 1..Len(keys) :
            "public key" \in DOMAIN keys[i]
                => files[keys[i]["fileName"]] = <<keys[i]["public key"]>>

-----------------------------------------------------------------------------
(* Claims about field resolution, under SpecResolve *)

\* C2: once handleMissingFields has returned for a record, the record's label
\* list is not empty.
C2_LabelsNonEmpty ==
    \A i \in 1..Len(keys) : Resolved(i) => keys[i]["labels"] /= <<>>

\* the URL of record i after URL resolution, from the vault and the prompts
VaultUrl(i) == Get(vault[i].fields, "url")

UrlTyped(i) ==
    {answers[k].text : k \in {k \in 1..Len(answers) :
                                 answers[k].item = i /\ answers[k].field = "url"}}

UrlAfterResolution(i) ==
    IF ~Falsy(VaultUrl(i)) THEN VaultUrl(i)
    ELSE IF UrlTyped(i) /= {} THEN CHOOSE u \in UrlTyped(i) : TRUE
    ELSE <<>>

\* C6: under use-default a fetched item without labels gets exactly two labels,
\* the short-title of its title and then its URL as resolved.
C6_DefaultLabels ==
    labelsaction = UseDefault =>
        \A i \in 1..Len(keys) :
            (Resolved(i) /\ Falsy(Get(vault[i].fields, "labels"))) =>
                keys[i]["labels"] = <<_getShortTitle(vault[i]), UrlAfterResolution(i)>>

C6_Witness ==
    /\ labelsaction = UseDefault
    /\ \E i \in 1..Len(keys) :
          /\ Resolved(i)
          /\ Get(vault[i].fields, "labels") = None
          /\ UrlTyped(i) = {<<"p", ".", "i", "o">>}

\* C8: when the listing call fails the process exits with status 1 and nothing
\* else has happened: no fetch, no prompt, no directory, no file opened.
C8_ListingFailureIsFatal ==
    ListingFailed =>
        /\ pc = "exit1"
        /\ exitStatus = 1
        /\ Len(calls) = 1
        /\ answers = <<>>
        /\ writes = <<>>
        /\ keys = <<>>
        /\ files = IF dirExists THEN StaleFiles ELSE <<>>

C8_Witness ==
    /\ ListingFailed
    /\ pc = "exit1"
    /\ ~dirExists
    /\ Len(vault) > 0
    /\ urlaction = Prompt

-----------------------------------------------------------------------------
(* Claims about two runs, under SpecRerun *)

\* C5 as stated: a second complete run with the same flags on the same vault
\* data writes the config the first run wrote.
C5_SameVaultSameConfig ==
    (run = 2 /\ pc = "done") => files[ConfigName] = firstRun.config

\* C5 (amended): a second complete run with the same flags on the same vault
\* data, in which every prompt gets the answer it got in the first run, writes
\* the config the first run wrote, whatever the files held before.
C5_SameAnswersSameConfig ==
    (run = 2 /\ pc = "done" /\ answers = firstRun.answers)
        => files[ConfigName] = firstRun.config

C5_Witness ==
    /\ run = 2
    /\ pc = "done"
    /\ answers = firstRun.answers
    /\ \E k \in 1..Len(answers) : answers[k].text /= <<>>
    /\ dirExists

=============================================================================
